---- MODULE Spec2Model ----
(***************************************************************************)
(* Visibility-graph path finder (src/pathfinder.js).                       *)
(*                                                                         *)
(* The state is the script's global data: the obstacle, node and edge      *)
(* arrays, the adjacency map, the draw mode, the start/goal references,    *)
(* the drag tracking variables and the two id counters, together with the  *)
(* two things a handler leaves visible: the last line of the log panel and *)
(* the green path currently drawn on the canvas.                           *)
(*                                                                         *)
(* Coordinates.  The mouse reports whole pixels, and startX and startY are *)
(* whole pixels.  A start or goal node is put at the centre of a drag      *)
(* (line 95: x + w / 2, y + h / 2), which can fall on a half pixel, so the *)
(* coordinates of the geometry (a wall's x, y, width and height, a node's  *)
(* x and y, the two points of a probe) are counted in half pixels, Half to *)
(* the pixel: the node at pixel (1.5, 0.5) is [x |-> 3, y |-> 1].  The     *)
(* operators that model a handler take the pixel values the code has.      *)
(*                                                                         *)
(* Numbers.  A length, a cost or an estimate is an IEEE 754 double, in     *)
(* pixels as in the script: Math.hypot, + and < round and compare as the   *)
(* engine does (section "Numbers" below).                                  *)
(*                                                                         *)
(* Objects.  A node is the record [x, y, id, pw]; pw = NoWall stands for   *)
(* a node without the parentWall property.  JavaScript compares nodes by   *)
(* object identity; two distinct node objects that are reachable from the  *)
(* state at the same time always differ in id (the clear handler, which    *)
(* restarts the numbering, drops every reference to the older objects), so *)
(* record equality decides identity.  null is the record NullNode.         *)
(***************************************************************************)
EXTENDS Integers, Sequences, FiniteSets, TLC

VARIABLES obstacles, nodes, edges, graph, mode, startNode, goalNode,
          isDrawing, startX, startY, nodeIdCounter, obstacleIdCounter,
          lastLog, canvasPath, issued, probe, search

vars == <<obstacles, nodes, edges, graph, mode, startNode, goalNode,
          isDrawing, startX, startY, nodeIdCounter, obstacleIdCounter,
          lastLog, canvasPath, issued, probe, search>>

(***************************************************************************)
(* Bounds of the exploration.                                              *)
(***************************************************************************)
\* nodeIdCounter never exceeds MaxIds: a placement that would pass it is not explored
MaxIds == 6
\* start/goal placements explored between two clears (nodeIdCounter counts them,
\* four ids going to each wall)
MaxPoints == 3
\* obstacleIdCounter never exceeds MaxWalls
MaxWalls == 1

\* SpecSearch places the wall, the start and the goal at coordinates 0..SearchMax
SearchMax == 2
\* SpecGeom probes points and walls at coordinates 0..GeomMax
GeomMax == 2

\* Math.hypot of two differences of at most HypotSpan pixels is looked up in a
\* table computed once; a larger difference is computed where it is needed
HypotSpan == 18
\* parentWall of a node that has none (start, goal)
NoWall == -1
\* startX / startY before the first mousedown (undefined in the script)
Undefined == -1

\* half pixels to the pixel (line 95 halves a whole number of pixels)
Half == 2

\* the positions the mouse is pressed and released at, in pixels; the centre of
\* the drag from one to the other, (1.5, 1), is on a half pixel
MousePts == {<<0, 0>>, <<3, 2>>}

NullNode == [x |-> 0, y |-> 0, id |-> -1, pw |-> NoWall]

Range(s) == {s[i] : i \in 1..Len(s)}
Min(a, b) == IF a <= b THEN a ELSE b
Abs(a) == IF a < 0 THEN -a ELSE a

(***************************************************************************)
(* Geometry kernel.                                                        *)
(***************************************************************************)
\* lines 329-345.  lambda = numL / det and gamma = numG / det; for integers
\* 0 < n / det < 1 is decided by the signs and magnitudes of n and det.
StrictUnit(n, det) == IF det > 0 THEN 0 < n /\ n < det ELSE det < n /\ n < 0

lineIntersectsLineTouching(a1, a2, b1, b2) ==
    LET det  == (a2.x - a1.x) * (b2.y - b1.y) - (a2.y - a1.y) * (b2.x - b1.x)
        numL == (b2.y - b1.y) * (b2.x - a1.x) + (b1.x - b2.x) * (b2.y - a1.y)
        numG == (a1.y - a2.y) * (b2.x - a1.x) + (a2.x - a1.x) * (b2.y - a1.y)
        Closed(n) == IF det > 0 THEN 0 <= n /\ n <= det ELSE det <= n /\ n <= 0
    IN  IF det = 0 THEN FALSE ELSE Closed(numL) /\ Closed(numG)

\* line 333 answering true: parallel segments count as crossing
lineIntersectsLineParallel(a1, a2, b1, b2) ==
    LET det  == (a2.x - a1.x) * (b2.y - b1.y) - (a2.y - a1.y) * (b2.x - b1.x)
        numL == (b2.y - b1.y) * (b2.x - a1.x) + (b1.x - b2.x) * (b2.y - a1.y)
        numG == (a1.y - a2.y) * (b2.x - a1.x) + (a2.x - a1.x) * (b2.y - a1.y)
    IN  IF det = 0 THEN TRUE ELSE StrictUnit(numL, det) /\ StrictUnit(numG, det)

lineIntersectsLine(a1, a2, b1, b2) ==
    LET det  == (a2.x - a1.x) * (b2.y - b1.y) - (a2.y - a1.y) * (b2.x - b1.x)
        numL == (b2.y - b1.y) * (b2.x - a1.x) + (b1.x - b2.x) * (b2.y - a1.y)
        numG == (a1.y - a2.y) * (b2.x - a1.x) + (a2.x - a1.x) * (b2.y - a1.y)
    IN  IF det = 0 THEN FALSE ELSE StrictUnit(numL, det) /\ StrictUnit(numG, det)

\* lines 349-351
pointInRect(p, r) ==
    p.x > r.x /\ p.x < r.x + r.width /\ p.y > r.y /\ p.y < r.y + r.height

\* lines 302-307
RectCorners(r) ==
    << [x |-> r.x,           y |-> r.y],
       [x |-> r.x + r.width, y |-> r.y],
       [x |-> r.x,           y |-> r.y + r.height],
       [x |-> r.x + r.width, y |-> r.y + r.height] >>

\* lines 309-314
RectEdges(r) ==
    LET c == RectCorners(r)
    IN  << <<c[1], c[2]>>, <<c[1], c[3]>>, <<c[2], c[4]>>, <<c[3], c[4]>> >>

lineIntersectsRectFirstEndpoint(a, b, r) ==
    LET es == RectEdges(r)
    IN  \/ \E i \in 1..4 : lineIntersectsLine(a, b, es[i][1], es[i][2])
        \/ pointInRect(a, r)

\* lines 300-324
\* lines 320-323 left out: the four sides are tested, the two ends are not
lineIntersectsRectSidesOnly(a, b, r) ==
    LET es == RectEdges(r)
    IN  \E i \in 1..4 : lineIntersectsLine(a, b, es[i][1], es[i][2])

lineIntersectsRect(a, b, r) ==
    LET es == RectEdges(r)
    IN  \/ \E i \in 1..4 : lineIntersectsLine(a, b, es[i][1], es[i][2])
        \/ pointInRect(a, r)
        \/ pointInRect(b, r)

\* lines 291-296, with the obstacle list as a parameter
isVisibleIn(a, b, obs) ==
    \A i \in 1..Len(obs) : ~lineIntersectsRect(a, b, obs[i])

isVisible(a, b) == isVisibleIn(a, b, obstacles)

(***************************************************************************)
(* Numbers.  Every length, cost and estimate of the script is a JavaScript *)
(* number: an IEEE 754 double.  The script only adds them (+), compares    *)
(* them (<) and takes Math.hypot of differences of coordinates, and none    *)
(* is negative, so a number is modelled as                                 *)
(*     [e, hi, lo]  =  (hi * 2^27 + lo) * 2^(e - 52),                      *)
(* its 53 significant bits split in hi (26 bits, the leading one set) and  *)
(* lo (27 bits).  Zero is DZero; Infinity is above every number.  Every     *)
(* operation rounds to nearest, ties to even, as the hardware does.        *)
(***************************************************************************)
DZero == [e |-> -1075, hi |-> 0, lo |-> 0]
DOne == [e |-> 0, hi |-> 2^25, lo |-> 0]
\* the value of costFromStart / estimatedTotalCost before a node is reached
Infinity == [e |-> 1024, hi |-> 0, lo |-> 0]

\* a < b of two numbers that are not negative
DLess(a, b) ==
    \/ a.e < b.e
    \/ a.e = b.e /\ a.hi < b.hi
    \/ a.e = b.e /\ a.hi = b.hi /\ a.lo < b.lo

\* the double nearest to (hi * 2^29 + lo4 + s) * 2^(e - 54), where lo4 has 29 bits
\* (two of them beyond the last place) and 0 < s < 1 iff sticky
RoundExt(e, hi, lo4, sticky) ==
    LET r == lo4 % 4
        lo == lo4 \div 4
        up == r = 3 \/ (r = 2 /\ (sticky \/ lo % 2 = 1))
    IN  IF ~up THEN [e |-> e, hi |-> hi, lo |-> lo]
        ELSE IF lo + 1 < 2^27 THEN [e |-> e, hi |-> hi, lo |-> lo + 1]
        ELSE IF hi + 1 < 2^26 THEN [e |-> e, hi |-> hi + 1, lo |-> 0]
        ELSE [e |-> e + 1, hi |-> 2^25, lo |-> 0]

\* a + b
DAdd(a, b) ==
    IF a = DZero THEN b
    ELSE IF b = DZero THEN a
    ELSE IF a = Infinity \/ b = Infinity THEN Infinity
    ELSE LET big == IF DLess(a, b) THEN b ELSE a
             small == IF DLess(a, b) THEN a ELSE b
             d == big.e - small.e
             lo4 == small.lo * 4
             \* the smaller operand, two more bits appended, shifted right d places
             sHi == IF d >= 29 THEN 0 ELSE small.hi \div 2^d
             sLo == IF d >= 56 THEN 0
                    ELSE IF d >= 29 THEN small.hi \div 2^(d - 29)
                    ELSE lo4 \div 2^d + (small.hi % 2^d) * 2^(29 - d)
             lost == IF d >= 56 THEN TRUE
                     ELSE IF d >= 29 THEN lo4 # 0 \/ small.hi % 2^(d - 29) # 0
                     ELSE lo4 % 2^d # 0
             sumLo == big.lo * 4 + sLo
             lo == sumLo % 2^29
             hi == big.hi + sHi + sumLo \div 2^29
         IN  IF hi < 2^26 THEN RoundExt(big.e, hi, lo, lost)
             ELSE RoundExt(big.e + 1, hi \div 2, (hi % 2) * 2^28 + lo \div 2,
                           lost \/ lo % 2 = 1)

(***************************************************************************)
(* Whole numbers of any size, for the exact product, quotient and root     *)
(* that Math.hypot rounds: a sequence of digits in base Limb, the least    *)
(* significant first.                                                      *)
(***************************************************************************)
Limb == 16384
LimbBits == 14

\* the 53 significant bits of a double as a whole number
ToLimbs(a) ==
    << a.lo % Limb, a.lo \div Limb + (a.hi % 2) * 8192,
       (a.hi \div 2) % Limb, a.hi \div 32768 >>

DigitAt(p, i) == IF i <= Len(p) THEN p[i] ELSE 0

RECURSIVE MulSmallFrom(_, _, _, _)
MulSmallFrom(p, k, i, carry) ==
    IF i > Len(p) THEN (IF carry = 0 THEN << >> ELSE <<carry>>)
    ELSE LET v == p[i] * k + carry
         IN  <<v % Limb>> \o MulSmallFrom(p, k, i + 1, v \div Limb)
\* p * k + c  (k, c < Limb)
MulSmall(p, k, c) == MulSmallFrom(p, k, 1, c)

RECURSIVE AddFrom(_, _, _, _)
AddFrom(p, q, i, carry) ==
    IF i > Len(p) /\ i > Len(q) THEN (IF carry = 0 THEN << >> ELSE <<carry>>)
    ELSE LET v == DigitAt(p, i) + DigitAt(q, i) + carry
         IN  <<v % Limb>> \o AddFrom(p, q, i + 1, v \div Limb)
BigAdd(p, q) == AddFrom(p, q, 1, 0)

RECURSIVE SubFrom(_, _, _, _)
SubFrom(p, q, i, borrow) ==
    IF i > Len(p) THEN << >>
    ELSE LET v == p[i] - DigitAt(q, i) - borrow
         IN  IF v < 0 THEN <<v + Limb>> \o SubFrom(p, q, i + 1, 1)
             ELSE <<v>> \o SubFrom(p, q, i + 1, 0)
\* p - q  (q <= p)
BigSub(p, q) == SubFrom(p, q, 1, 0)

RECURSIVE LessFrom(_, _, _)
LessFrom(p, q, i) ==
    IF i = 0 THEN FALSE
    ELSE IF DigitAt(p, i) # DigitAt(q, i) THEN DigitAt(p, i) < DigitAt(q, i)
    ELSE LessFrom(p, q, i - 1)
\* p < q
BigLess(p, q) == LessFrom(p, q, IF Len(p) > Len(q) THEN Len(p) ELSE Len(q))

Zeros(n) == [i \in 1..n |-> 0]

RECURSIVE MulFrom(_, _, _)
MulFrom(p, q, j) ==
    IF j > Len(q) THEN << >>
    ELSE BigAdd(Zeros(j - 1) \o MulSmall(p, q[j], 0), MulFrom(p, q, j + 1))
\* p * q
BigMul(p, q) == MulFrom(p, q, 1)

RECURSIVE DivSmallFrom(_, _, _, _)
\* << the digits i..1 of floor(p / k), the remainder >>, rem carried from the digits above
DivSmallFrom(p, k, i, rem) ==
    IF i = 0 THEN << << >>, rem >>
    ELSE LET cur == rem * Limb + p[i]
             rest == DivSmallFrom(p, k, i - 1, cur % k)
         IN  << Append(rest[1], cur \div k), rest[2] >>
\* << floor(p / k), p mod k >>  (k < 2^17)
DivSmall(p, k) == DivSmallFrom(p, k, Len(p), 0)

\* bit i of p (bit 0 the least significant)
Bit(p, i) ==
    IF i < 0 \/ i \div LimbBits + 1 > Len(p) THEN 0
    ELSE (p[i \div LimbBits + 1] \div 2^(i % LimbBits)) % 2

RECURSIVE BitLenFrom(_, _)
BitLenFrom(p, i) ==
    IF i < 0 THEN 0 ELSE IF Bit(p, i) = 1 THEN i + 1 ELSE BitLenFrom(p, i - 1)
\* the number of bits of p
BitLen(p) == BitLenFrom(p, LimbBits * Len(p) - 1)

RECURSIVE TakeBits(_, _, _)
\* the n bits of p from bit low upwards
TakeBits(p, low, n) ==
    IF n = 0 THEN 0 ELSE Bit(p, low) + 2 * TakeBits(p, low + 1, n - 1)

AnyBelow(p, low) == \E i \in 0..(low - 1) : Bit(p, i) = 1

\* the double nearest to (p + s) * 2^x, 0 < s < 1 iff sticky  (p > 0)
RoundLimbs(p, x, sticky) ==
    LET len == BitLen(p)
    IN  RoundExt(x + len - 1, TakeBits(p, len - 26, 26), TakeBits(p, len - 55, 29),
                 sticky \/ AnyBelow(p, len - 55))

RECURSIVE RootFrom(_, _, _, _)
\* << floor(sqrt(n)), is n a square >>: one bit of the root for every two bits of n,
\* from pair j down; root and rem are what the pairs above gave
RootFrom(n, j, root, rem) ==
    IF j < 0 THEN << root, \A i \in 1..Len(rem) : rem[i] = 0 >>
    ELSE LET r == MulSmall(rem, 4, TakeBits(n, 2 * j, 2))
             trial == MulSmall(root, 4, 1)
         IN  IF BigLess(r, trial) THEN RootFrom(n, j - 1, MulSmall(root, 2, 0), r)
             ELSE RootFrom(n, j - 1, MulSmall(root, 2, 1), BigSub(r, trial))
BigRoot(n) == RootFrom(n, (LimbBits \div 2) * Len(n) - 1, << >>, << >>)

\* x / m of whole numbers 0 < x < m < Limb
DDivInt(x, m) ==
    LET q == DivSmall(Zeros(6) \o <<x>>, m)
    IN  RoundLimbs(q[1], -6 * LimbBits, q[2] # 0)

\* a * a
DSquare(a) ==
    IF a = DZero THEN DZero
    ELSE RoundLimbs(BigMul(ToLimbs(a), ToLimbs(a)), 2 * (a.e - 52), FALSE)

\* a * k of a whole number 0 < k < Limb
DMulInt(a, k) == RoundLimbs(MulSmall(ToLimbs(a), k, 0), a.e - 52, FALSE)

\* sqrt(a)  (a > 0)
DSqrt(a) ==
    LET odd == (a.e - 52) % 2 = 1
        n == Zeros(4) \o MulSmall(ToLimbs(a), IF odd THEN 2 ELSE 1, 0)
        x == (a.e - 52 - 4 * LimbBits - (IF odd THEN 1 ELSE 0)) \div 2
        r == BigRoot(n)
    IN  RoundLimbs(r[1], x, ~r[2])

(***************************************************************************)
(* Math.hypot of two whole numbers, as V8 computes it: both arguments are  *)
(* divided by the larger magnitude, the squares of the two ratios are      *)
(* added, and the root of the sum is multiplied by that magnitude; every   *)
(* step is one rounded double operation.  (The compensation term of its    *)
(* summation stays zero when there are two arguments.)                     *)
(***************************************************************************)
HypotOf(ax, ay) ==
    LET max == IF ax > ay THEN ax ELSE ay
        Ratio(v) == IF v = max THEN DOne ELSE IF v = 0 THEN DZero ELSE DDivInt(v, max)
    IN  IF max = 0 THEN DZero
        ELSE DMulInt(DSqrt(DAdd(DSquare(Ratio(ax)), DSquare(Ratio(ay)))), max)

\* Math.hypot for every pair of magnitudes up to HypotSpan
HypotTable ==
    (<<0, 0>> :> DZero) @@
    [p \in (0..HypotSpan) \X (0..HypotSpan) |-> HypotOf(p[1], p[2])]

\* Math.hypot of two whole numbers
HypotWhole(ax, ay) ==
    IF ax <= HypotSpan /\ ay <= HypotSpan THEN HypotTable[<<ax, ay>>]
    ELSE HypotOf(ax, ay)

\* a / 2: one off the exponent
Halved(a) == IF a = DZero THEN DZero ELSE [a EXCEPT !.e = @ - 1]

\* Math.hypot(dx / 2, dy / 2), the differences dx and dy given in half pixels; the
\* sign of an argument is dropped first.  Halving both arguments halves the
\* result and rounds nothing differently: the ratios to the larger magnitude are
\* the same doubles, and a product with half of it is half the product.
Hypot(dx, dy) ==
    IF Abs(dx) % Half = 0 /\ Abs(dy) % Half = 0
    THEN HypotWhole(Abs(dx) \div Half, Abs(dy) \div Half)
    ELSE Halved(HypotWhole(Abs(dx), Abs(dy)))

\* four times the distance: an estimate that overestimates the remaining cost
heuristicInflated(a, b) ==
    LET h == Hypot(a.x - b.x, a.y - b.y) IN DAdd(DAdd(h, h), DAdd(h, h))

\* lines 356-361
heuristic(a, b) == Hypot(a.x - b.x, a.y - b.y)

(***************************************************************************)
(* buildGraph (lines 207-257).                                             *)
(***************************************************************************)
\* lines 218-219 left out: two nodes without a parentWall count as of one wall
AllowSameUndefined(nodeA, nodeB) ==
    LET sameWall == nodeA.pw = nodeB.pw
        dx == Abs(nodeA.x - nodeB.x)
        dy == Abs(nodeA.y - nodeB.y)
        alignedHorizontally == dx > 0 /\ dy = 0
        alignedVertically   == dy > 0 /\ dx = 0
    IN  sameWall => (alignedHorizontally \/ alignedVertically)

\* lines 216-234 left out: every pair may be connected
AllowAll(nodeA, nodeB) == TRUE

\* lines 216-234: may the pair be connected at all
Allow(nodeA, nodeB) ==
    LET sameWall == nodeA.pw # NoWall /\ nodeB.pw # NoWall /\ nodeA.pw = nodeB.pw
        dx == Abs(nodeA.x - nodeB.x)
        dy == Abs(nodeA.y - nodeB.y)
        alignedHorizontally == dx > 0 /\ dy = 0
        alignedVertically   == dy > 0 /\ dx = 0
    IN  sameWall => (alignedHorizontally \/ alignedVertically)

\* lines 236-240: the edges pushed for the pair (nodeA, nodeB)
PairEdgesOneWay(nodeA, nodeB, obs) ==
    IF Allow(nodeA, nodeB) /\ isVisibleIn(nodeA, nodeB, obs)
    THEN << [from |-> nodeA, to |-> nodeB] >>
    ELSE << >>

PairEdges(nodeA, nodeB, obs) ==
    IF Allow(nodeA, nodeB) /\ isVisibleIn(nodeA, nodeB, obs)
    THEN << [from |-> nodeA, to |-> nodeB], [from |-> nodeB, to |-> nodeA] >>
    ELSE << >>

RECURSIVE BuildEdgesFrom(_, _, _, _)
\* lines 211-242: the loops over i < j, from the pair (i, j) on
BuildEdgesFrom(ns, obs, i, j) ==
    IF i > Len(ns) THEN << >>
    ELSE IF j > Len(ns) THEN BuildEdgesFrom(ns, obs, i + 1, i + 2)
    ELSE PairEdges(ns[i], ns[j], obs) \o BuildEdgesFrom(ns, obs, i, j + 1)

BuildEdges(ns, obs) == BuildEdgesFrom(ns, obs, 1, 2)

\* line 246-248
EdgeWeight(e) == Hypot(e.from.x - e.to.x, e.from.y - e.to.y)

\* lines 245-257: the list graph.get(id) ends up with, in edge order
AdjacencyOf(es, id) ==
    LET from == SelectSeq(es, LAMBDA e : e.from.id = id)
    IN  [k \in 1..Len(from) |-> [node |-> from[k].to, weight |-> EdgeWeight(from[k])]]

\* the Map graph: its keys are the ids some edge starts at
BuildAdjacency(es) ==
    [id \in {es[k].from.id : k \in 1..Len(es)} |-> AdjacencyOf(es, id)]

\* a lookup by the node object instead of its id finds no key
NeighboursByNode(g, id) == << >>

\* line 456: graph.get(id) || []
Neighbours(g, id) == IF id \in DOMAIN g THEN g[id] ELSE << >>

(***************************************************************************)
(* A* (lines 364-473).  The frontier is a JavaScript Set: it iterates in   *)
(* insertion order, adding a member again leaves it where it is, and a     *)
(* deleted member that is added again goes to the end.  The three Maps are *)
(* functions on the ids they have a key for.                               *)
(***************************************************************************)
SetAdd(fr, n) == IF n \in Range(fr) THEN fr ELSE Append(fr, n)
SetDelete(fr, n) == SelectSeq(fr, LAMBDA m : m # n)
MapSet(m, k, v) == (k :> v) @@ m

RECURSIVE LowestFrom(_, _, _, _, _)
\* lines 368-374: the scan from position i on, with the best node so far
LowestFrom(frontier, est, i, bestNode, bestScore) ==
    IF i > Len(frontier) THEN bestNode
    ELSE IF DLess(est[frontier[i].id], bestScore)
         THEN LowestFrom(frontier, est, i + 1, frontier[i], est[frontier[i].id])
         ELSE LowestFrom(frontier, est, i + 1, bestNode, bestScore)

\* lines 364-377
getLowestEstimatecCost(frontier, estimatedTotalCost) ==
    LowestFrom(frontier, estimatedTotalCost, 1, NullNode, Infinity)

RECURSIVE WalkBack(_, _, _)
\* lines 383-389: the path built so far begins with currentNode
WalkBack(cameFrom, currentNode, path) ==
    IF currentNode.id \in DOMAIN cameFrom
    THEN WalkBack(cameFrom, cameFrom[currentNode.id],
                  <<cameFrom[currentNode.id]>> \o path)
    ELSE path

constructPathNoWalk(cameFrom, currentNode) == <<currentNode>>

\* lines 380-392: the path handed to drawPath
constructPath(cameFrom, currentNode) ==
    WalkBack(cameFrom, currentNode, <<currentNode>>)

\* lines 460-469 without line 467: the neighbour's estimate is left as it was
RelaxNoEstimate(s, currentNode, neighbour, goal) ==
    LET tentCost == DAdd(s.cost[currentNode.id], neighbour.weight)
        nid == neighbour.node.id
    IN  IF nid \in DOMAIN s.cost /\ DLess(tentCost, s.cost[nid])
        THEN [frontier |-> SetAdd(s.frontier, neighbour.node),
              cameFrom |-> MapSet(s.cameFrom, nid, currentNode),
              cost     |-> MapSet(s.cost, nid, tentCost),
              est      |-> s.est]
        ELSE s

\* line 461 with a cost not on record read as Infinity
RelaxMissingInfinite(s, currentNode, neighbour, goal) ==
    LET tentCost == DAdd(s.cost[currentNode.id], neighbour.weight)
        nid == neighbour.node.id
        known == IF nid \in DOMAIN s.cost THEN s.cost[nid] ELSE Infinity
    IN  IF DLess(tentCost, known)
        THEN [frontier |-> SetAdd(s.frontier, neighbour.node),
              cameFrom |-> MapSet(s.cameFrom, nid, currentNode),
              cost     |-> MapSet(s.cost, nid, tentCost),
              est      |-> MapSet(s.est, nid, DAdd(tentCost, heuristic(neighbour.node, goal)))]
        ELSE s

\* line 461 with <= in the place of <
RelaxOrEqual(s, currentNode, neighbour, goal) ==
    LET tentCost == DAdd(s.cost[currentNode.id], neighbour.weight)
        nid == neighbour.node.id
    IN  IF nid \in DOMAIN s.cost /\ ~DLess(s.cost[nid], tentCost)
        THEN [frontier |-> SetAdd(s.frontier, neighbour.node),
              cameFrom |-> MapSet(s.cameFrom, nid, currentNode),
              cost     |-> MapSet(s.cost, nid, tentCost),
              est      |-> MapSet(s.est, nid, DAdd(tentCost, heuristic(neighbour.node, goal)))]
        ELSE s

\* lines 460-469: one neighbour of currentNode; s = [frontier, cameFrom, cost, est]
Relax(s, currentNode, neighbour, goal) ==
    LET nid == neighbour.node.id
    IN  \* tentCost (line 460) and the heuristic of line 467 are worked out once
        CHOOSE out \in
          { \* a key the cost map lacks reads as undefined, and n < undefined is false
            IF nid \in DOMAIN s.cost /\ DLess(tentCost, s.cost[nid])
            THEN [frontier |-> SetAdd(s.frontier, neighbour.node),
                  cameFrom |-> MapSet(s.cameFrom, nid, currentNode),
                  cost     |-> MapSet(s.cost, nid, tentCost),
                  est      |-> MapSet(s.est, nid, DAdd(tentCost, h))]
            ELSE s :
              tentCost \in {DAdd(s.cost[currentNode.id], neighbour.weight)},
              h \in {heuristic(neighbour.node, goal)} } : TRUE

RECURSIVE RelaxAll(_, _, _, _, _)
\* lines 458-470: the neighbours from position k on
RelaxAll(s, currentNode, neighbours, k, goal) ==
    IF k > Len(neighbours) THEN s
    ELSE \* the maps after neighbour k are worked out, then the loop goes on
         CHOOSE out \in {RelaxAll(t, currentNode, neighbours, k + 1, goal) :
                            t \in {Relax(s, currentNode, neighbours[k], goal)}} : TRUE

RECURSIVE AStarLoop(_, _, _)
\* lines 423-472.  The outcome: "found" with the path, "none" when the
\* frontier empties, "error" when the scan returns null and line 456 reads
\* a property of null.
AStarLoop(s, g, goal) ==
    IF s.frontier = << >> THEN [outcome |-> "none", path |-> << >>]
    ELSE LET currentNode == getLowestEstimatecCost(s.frontier, s.est)
         IN  IF currentNode = goal
             THEN [outcome |-> "found", path |-> constructPath(s.cameFrom, currentNode)]
             ELSE IF currentNode = NullNode
             THEN [outcome |-> "error", path |-> << >>]
             ELSE AStarLoop(
                    RelaxAll([s EXCEPT !.frontier = SetDelete(s.frontier, currentNode)],
                             currentNode, Neighbours(g, currentNode.id), 1, goal),
                    g, goal)

\* line 420 left out: the start keeps the estimate Infinity
AStarInitNoEstimate(ns, start, goal) ==
    LET ids == {ns[i].id : i \in 1..Len(ns)}
    IN  [frontier |-> <<start>>,
         cameFrom |-> [i \in {} |-> NullNode],
         cost     |-> MapSet([i \in ids |-> Infinity], start.id, DZero),
         est      |-> [i \in ids |-> Infinity]]

\* lines 400-420: the frontier and the maps the loop starts from
AStarInit(ns, start, goal) ==
    LET ids == {ns[i].id : i \in 1..Len(ns)}
    IN  [frontier |-> <<start>>,
         cameFrom |-> [i \in {} |-> NullNode],
         cost     |-> MapSet([i \in ids |-> Infinity], start.id, DZero),
         est      |-> MapSet([i \in ids |-> Infinity], start.id, heuristic(start, goal))]

\* lines 397-473
runAStar(ns, g, start, goal) == AStarLoop(AStarInit(ns, start, goal), g, goal)

(***************************************************************************)
(* The handlers.                                                           *)
(***************************************************************************)
EmptyMap == [i \in {} |-> << >>]

\* The two observers.  issued records the highest id given to a node so far:
\* ever, and since the last clear.  probe holds two points and what the
\* visibility test answers for them, once it has been asked.
NoneIssued == [ever |-> -1, sinceClear |-> -1]

Point(px, py) == [x |-> px, y |-> py]

NoProbe == [a |-> Point(0, 0), b |-> Point(0, 0), done |-> FALSE,
            ab |-> FALSE, ba |-> FALSE, hit |-> << >>, hitBack |-> << >>]

\* runAStar is not running.  While it runs, search holds its arguments, its
\* frontier and its three Maps, the number of passes through the loop of line
\* 423 begun so far, and in the end the outcome and the path handed to drawPath.
NoSearch == [pc |-> "idle", start |-> NullNode, goal |-> NullNode,
             frontier |-> << >>, cameFrom |-> [i \in {} |-> NullNode],
             cost |-> [i \in {} |-> 0], est |-> [i \in {} |-> 0],
             passes |-> 0, path |-> << >>]

Init ==
    /\ obstacles = << >>
    /\ nodes = << >>
    /\ edges = << >>
    /\ graph = EmptyMap
    /\ mode = "wall"
    /\ startNode = NullNode
    /\ goalNode = NullNode
    /\ isDrawing = FALSE
    /\ startX = Undefined
    /\ startY = Undefined
    /\ nodeIdCounter = 0
    /\ obstacleIdCounter = 0
    /\ lastLog = ""
    /\ canvasPath = << >>
    /\ issued = NoneIssued
    /\ probe = NoProbe
    /\ search = NoSearch

\* lines 46-51
MouseDown(px, py) ==
    /\ startX' = px
    /\ startY' = py
    /\ isDrawing' = TRUE
    /\ UNCHANGED <<obstacles, nodes, edges, graph, mode, startNode, goalNode,
                   nodeIdCounter, obstacleIdCounter, lastLog, canvasPath>>

\* line 78 without the ++: the four corners get the one id
CornerNodesOneId(x, y, w, h, firstId, wall) ==
    << [x |-> Half * x,       y |-> Half * y,       id |-> firstId, pw |-> wall],
       [x |-> Half * (x + w), y |-> Half * y,       id |-> firstId, pw |-> wall],
       [x |-> Half * x,       y |-> Half * (y + h), id |-> firstId, pw |-> wall],
       [x |-> Half * (x + w), y |-> Half * (y + h), id |-> firstId, pw |-> wall] >>

\* lines 69-81: the four corner nodes of the wall {x, y, w, h}
CornerNodes(x, y, w, h, firstId, wall) ==
    << [x |-> Half * x,       y |-> Half * y,       id |-> firstId,     pw |-> wall],
       [x |-> Half * (x + w), y |-> Half * y,       id |-> firstId + 1, pw |-> wall],
       [x |-> Half * x,       y |-> Half * (y + h), id |-> firstId + 2, pw |-> wall],
       [x |-> Half * (x + w), y |-> Half * (y + h), id |-> firstId + 3, pw |-> wall] >>

\* line 66: the wall { x, y, width: w, height: h }
Rect(x, y, w, h) ==
    [x |-> Half * x, y |-> Half * y, width |-> Half * w, height |-> Half * h]

\* line 95: the point (x + w / 2, y + h / 2)
Centre(x, y, w, h) == [x |-> Half * x + w, y |-> Half * y + h]

\* lines 87-88, 91-92: nodes.indexOf(old) and nodes.splice(index, 1)
RemoveKeep(ns, old) == ns

RECURSIVE RemoveFromOn(_, _)
\* splice(index) without its count: everything from the old node on goes
RemoveFromOn(ns, old) ==
    IF ns = << >> THEN << >>
    ELSE IF Head(ns) = old THEN << >>
    ELSE <<Head(ns)>> \o RemoveFromOn(Tail(ns), old)

RECURSIVE RemoveFirst(_, _)
RemoveFirst(ns, old) ==
    IF ns = << >> THEN << >>
    ELSE IF Head(ns) = old THEN Tail(ns)
    ELSE <<Head(ns)>> \o RemoveFirst(Tail(ns), old)

\* line 95: the id the new start/goal node gets
PointIdLength(ns) == Len(ns)

PointId(ns) == nodeIdCounter

\* lines 65-83
PlaceWall(x, y, w, h) ==
    /\ obstacleIdCounter < MaxWalls
    /\ nodeIdCounter + 4 <= MaxIds
    /\ obstacles' = Append(obstacles, Rect(x, y, w, h))
    /\ nodes' = nodes \o CornerNodes(x, y, w, h, nodeIdCounter, obstacleIdCounter)
    /\ nodeIdCounter' = nodeIdCounter + 4
    /\ obstacleIdCounter' = obstacleIdCounter + 1
    /\ lastLog' = "Created wall"
    /\ UNCHANGED <<startNode, goalNode>>

\* lines 84-105
PlacePoint(x, y, w, h) ==
    LET old  == IF mode = "start" THEN startNode ELSE goalNode
        kept == IF old # NullNode THEN RemoveFirst(nodes, old) ELSE nodes
        node == [x |-> Centre(x, y, w, h).x, y |-> Centre(x, y, w, h).y,
                 id |-> PointId(kept), pw |-> NoWall]
    IN  /\ nodeIdCounter - 4 * Len(obstacles) < MaxPoints
        /\ nodeIdCounter < MaxIds
        /\ nodes' = Append(kept, node)
        /\ nodeIdCounter' = nodeIdCounter + 1
        /\ IF mode = "start"
           THEN startNode' = node /\ goalNode' = goalNode /\ lastLog' = "Set start node"
           ELSE goalNode' = node /\ startNode' = startNode /\ lastLog' = "Set goal node"
        /\ UNCHANGED <<obstacles, obstacleIdCounter>>

\* lines 54-108
MouseUp(endX, endY) ==
    LET x == Min(startX, endX)
        y == Min(startY, endY)
        w == Abs(startX - endX)
        h == Abs(startY - endY)
    IN  /\ isDrawing
        /\ isDrawing' = FALSE
        /\ IF mode = "wall" THEN PlaceWall(x, y, w, h) ELSE PlacePoint(x, y, w, h)
        /\ canvasPath' = << >>
        /\ UNCHANGED <<edges, graph, mode, startX, startY>>

\* lines 114-116
KeyMode(key) ==
    /\ mode' = CASE key = "s" -> "start" [] key = "g" -> "goal" [] key = "w" -> "wall"
    /\ UNCHANGED <<obstacles, nodes, edges, graph, startNode, goalNode, isDrawing,
                   startX, startY, nodeIdCounter, obstacleIdCounter, lastLog,
                   canvasPath>>

\* lines 117-123
KeyEnter ==
    /\ edges' = BuildEdges(nodes, obstacles)
    /\ graph' = BuildAdjacency(edges')
    /\ lastLog' = "Render complete"
    /\ canvasPath' = << >>
    /\ UNCHANGED <<obstacles, nodes, mode, startNode, goalNode, isDrawing, startX,
                   startY, nodeIdCounter, obstacleIdCounter>>

\* lines 129-139
ClearButton ==
    /\ obstacles' = << >>
    /\ nodes' = << >>
    /\ edges' = << >>
    /\ graph' = EmptyMap
    /\ startNode' = NullNode
    /\ goalNode' = NullNode
    /\ nodeIdCounter' = 0
    /\ lastLog' = "Cleared all obstacles, nodes, and paths."
    /\ canvasPath' = << >>
    /\ UNCHANGED <<mode, isDrawing, startX, startY, obstacleIdCounter>>

\* line 143: startNode && goalNode
CanSearchStartOnly == startNode # NullNode

CanSearch == startNode # NullNode /\ goalNode # NullNode

\* lines 142-148
BeginAStar ==
    /\ IF CanSearch
       THEN LET r == runAStar(nodes, graph, startNode, goalNode)
            IN  CASE r.outcome = "found" ->
                       lastLog' = "Path found" /\ canvasPath' = r.path
                  [] r.outcome = "none" ->
                       lastLog' = "No path exists" /\ canvasPath' = canvasPath
                  [] OTHER ->
                       lastLog' = "TypeError" /\ canvasPath' = canvasPath
       ELSE lastLog' = "Please place both a start and goal node." /\ canvasPath' = canvasPath
    /\ UNCHANGED <<obstacles, nodes, edges, graph, mode, startNode, goalNode, isDrawing,
                   startX, startY, nodeIdCounter, obstacleIdCounter>>

\* the handlers leave the observers alone
Untracked == UNCHANGED <<issued, probe, search>>

Next ==
    \/ \E p \in MousePts : MouseDown(p[1], p[2]) /\ Untracked
    \/ \E p \in MousePts : MouseUp(p[1], p[2]) /\ Untracked
    \/ \E key \in {"s", "g", "w"} : KeyMode(key) /\ Untracked
    \/ KeyEnter /\ Untracked
    \/ ClearButton /\ Untracked
    \/ BeginAStar /\ Untracked

Spec == Init /\ [][Next]_vars

(***************************************************************************)
(* SpecIds: the handlers with the id observer switched on.                 *)
(***************************************************************************)
MaxOf(S, least) == IF S = {} THEN least ELSE CHOOSE m \in S : \A k \in S : k <= m

\* the nodes a step creates
Created == Range(nodes') \ Range(nodes)

TrackIds ==
    /\ issued' = [ever       |-> MaxOf({n.id : n \in Created} \cup {issued.ever}, -1),
                  sinceClear |-> MaxOf({n.id : n \in Created} \cup {issued.sinceClear}, -1)]
    /\ UNCHANGED <<probe, search>>

TrackClear ==
    /\ issued' = [issued EXCEPT !.sinceClear = -1]
    /\ UNCHANGED <<probe, search>>

NextIds ==
    \/ \E p \in MousePts : MouseDown(p[1], p[2]) /\ Untracked
    \/ \E p \in MousePts : MouseUp(p[1], p[2]) /\ TrackIds
    \/ \E key \in {"s", "g", "w"} : KeyMode(key) /\ Untracked
    \/ KeyEnter /\ Untracked
    \/ ClearButton /\ TrackClear
    \/ BeginAStar /\ Untracked

SpecIds == Init /\ [][NextIds]_vars

(***************************************************************************)
(* SpecSearch: build and search from the states reached by drawing at most *)
(* one wall and clicking a start and a goal, the wall drawn before the two *)
(* clicks or after them.                                                   *)
(***************************************************************************)
SearchPts == (0..SearchMax) \X (0..SearchMax)

\* the state after: press at p, release at q in wall mode (when wall), and a
\* click at s in start mode and a click at g in goal mode
Placed(wall, wallFirst, p, q, s, g) ==
    LET x == Min(p[1], q[1])
        y == Min(p[2], q[2])
        w == Abs(p[1] - q[1])
        h == Abs(p[2] - q[2])
        first == IF wall /\ wallFirst THEN 4 ELSE 0
        start == [x |-> Centre(s[1], s[2], 0, 0).x, y |-> Centre(s[1], s[2], 0, 0).y,
                  id |-> first, pw |-> NoWall]
        goal  == [x |-> Centre(g[1], g[2], 0, 0).x, y |-> Centre(g[1], g[2], 0, 0).y,
                  id |-> first + 1, pw |-> NoWall]
        corners == CornerNodes(x, y, w, h, IF wallFirst THEN 0 ELSE 2, 0)
    IN  /\ obstacles = IF wall THEN << Rect(x, y, w, h) >> ELSE << >>
        /\ nodes = IF ~wall THEN <<start, goal>>
                   ELSE IF wallFirst THEN corners \o <<start, goal>>
                   ELSE <<start, goal>> \o corners
        /\ edges = << >>
        /\ graph = EmptyMap
        /\ mode = IF wall /\ ~wallFirst THEN "wall" ELSE "goal"
        /\ startNode = start
        /\ goalNode = goal
        /\ isDrawing = FALSE
        /\ startX = IF wall /\ ~wallFirst THEN p[1] ELSE g[1]
        /\ startY = IF wall /\ ~wallFirst THEN p[2] ELSE g[2]
        /\ nodeIdCounter = IF wall THEN 6 ELSE 2
        /\ obstacleIdCounter = IF wall THEN 1 ELSE 0
        /\ lastLog = IF wall /\ ~wallFirst THEN "Created wall" ELSE "Set goal node"
        /\ canvasPath = << >>
        /\ issued = NoneIssued
        /\ probe = NoProbe
        /\ search = NoSearch

InitSearch ==
    \E s \in SearchPts, g \in SearchPts :
        \/ Placed(FALSE, FALSE, s, s, s, g)
        \/ \E p \in SearchPts, q \in SearchPts, wallFirst \in BOOLEAN :
               \* the wall is dragged from its top left corner to its bottom right one
               /\ p[1] <= q[1] /\ p[2] <= q[2]
               /\ Placed(TRUE, wallFirst, p, q, s, g)

NextSearch ==
    \/ KeyEnter /\ Untracked
    \/ BeginAStar /\ Untracked

SpecSearch == InitSearch /\ [][NextSearch]_vars

(***************************************************************************)
(* SpecGeom: the visibility test asked both ways round for two points, in  *)
(* the states reached by drawing no wall, one wall or two walls.           *)
(***************************************************************************)
GeomPts == (0..GeomMax) \X (0..GeomMax)

\* the wall of the drag from p to q
Wall(p, q) == Rect(Min(p[1], q[1]), Min(p[2], q[2]), Abs(p[1] - q[1]), Abs(p[2] - q[2]))

\* its corner nodes, the first id and the wall's number given
DragNodes(p, q, firstId, wall) ==
    CornerNodes(Min(p[1], q[1]), Min(p[2], q[2]), Abs(p[1] - q[1]), Abs(p[2] - q[2]),
                firstId, wall)

WallNodes(p, q, k) == DragNodes(p, q, 4 * k, k)

\* the state after the drags ds[1], ds[2], ... (press, release) in wall mode
Drawn(ds) ==
    /\ obstacles = [k \in 1..Len(ds) |-> Wall(ds[k][1], ds[k][2])]
    /\ nodes = IF Len(ds) = 0 THEN << >>
               ELSE IF Len(ds) = 1 THEN WallNodes(ds[1][1], ds[1][2], 0)
               ELSE WallNodes(ds[1][1], ds[1][2], 0) \o WallNodes(ds[2][1], ds[2][2], 1)
    /\ edges = << >>
    /\ graph = EmptyMap
    /\ mode = "wall"
    /\ startNode = NullNode
    /\ goalNode = NullNode
    /\ isDrawing = FALSE
    /\ startX = IF Len(ds) = 0 THEN Undefined ELSE ds[Len(ds)][1][1]
    /\ startY = IF Len(ds) = 0 THEN Undefined ELSE ds[Len(ds)][1][2]
    /\ nodeIdCounter = 4 * Len(ds)
    /\ obstacleIdCounter = Len(ds)
    /\ lastLog = IF Len(ds) = 0 THEN "" ELSE "Created wall"
    /\ canvasPath = << >>
    /\ issued = NoneIssued
    /\ search = NoSearch

\* the second wall, when there is one, is the first one's mirror image
Mirror(p) == <<GeomMax - p[1], GeomMax - p[2]>>

InitGeom ==
    /\ \E p \in GeomPts, q \in GeomPts :
          \/ Drawn(<< >>)
          \/ Drawn(<< <<p, q>> >>)
          \/ Drawn(<< <<p, q>>, <<Mirror(q), Mirror(p)>> >>)
    /\ \E a \in GeomPts, b \in GeomPts :
          probe = [NoProbe EXCEPT !.a = Centre(a[1], a[2], 0, 0), !.b = Centre(b[1], b[2], 0, 0)]

\* isVisible(a, b), isVisible(b, a), and lineIntersectsRect(a, b, r) and
\* lineIntersectsRect(b, a, r) for each wall r
AskVisible ==
    /\ ~probe.done
    /\ probe' = [probe EXCEPT !.done = TRUE,
                              !.ab = isVisible(probe.a, probe.b),
                              !.ba = isVisible(probe.b, probe.a),
                              !.hit = [k \in 1..Len(obstacles) |->
                                         lineIntersectsRect(probe.a, probe.b, obstacles[k])],
                              !.hitBack = [k \in 1..Len(obstacles) |->
                                         lineIntersectsRect(probe.b, probe.a, obstacles[k])]]
    /\ UNCHANGED <<obstacles, nodes, edges, graph, mode, startNode, goalNode, isDrawing,
                   startX, startY, nodeIdCounter, obstacleIdCounter, lastLog, canvasPath,
                   issued, search>>

NextGeom == AskVisible

SpecGeom == InitGeom /\ [][NextGeom]_vars

(***************************************************************************)
(* SpecWalls: the handlers, from the states reached by drawing up to two   *)
(* walls, on a fresh page or after an earlier wall and a clear (the clear  *)
(* leaves obstacleIdCounter as it is).                                     *)
(***************************************************************************)
\* the state after the drags es[1], ... in wall mode and a clear (when es is
\* not empty), then the drags ds[1], ds[2], ... in wall mode
DrawnAfter(es, ds) ==
    /\ obstacles = [k \in 1..Len(ds) |-> Wall(ds[k][1], ds[k][2])]
    /\ nodes = IF Len(ds) = 0 THEN << >>
               ELSE IF Len(ds) = 1
               THEN DragNodes(ds[1][1], ds[1][2], 0, Len(es))
               ELSE DragNodes(ds[1][1], ds[1][2], 0, Len(es))
                        \o DragNodes(ds[2][1], ds[2][2], 4, Len(es) + 1)
    /\ edges = << >>
    /\ graph = EmptyMap
    /\ mode = "wall"
    /\ startNode = NullNode
    /\ goalNode = NullNode
    /\ isDrawing = FALSE
    /\ startX = IF Len(ds) > 0 THEN ds[Len(ds)][1][1]
                ELSE IF Len(es) > 0 THEN es[Len(es)][1][1] ELSE Undefined
    /\ startY = IF Len(ds) > 0 THEN ds[Len(ds)][1][2]
                ELSE IF Len(es) > 0 THEN es[Len(es)][1][2] ELSE Undefined
    /\ nodeIdCounter = 4 * Len(ds)
    /\ obstacleIdCounter = Len(es) + Len(ds)
    /\ lastLog = IF Len(ds) > 0 THEN "Created wall"
                 ELSE IF Len(es) > 0 THEN "Cleared all obstacles, nodes, and paths."
                 ELSE ""
    /\ canvasPath = << >>
    /\ issued = NoneIssued
    /\ probe = NoProbe
    /\ search = NoSearch

InitWalls ==
    \E p \in MousePts, q \in MousePts, a \in MousePts, b \in MousePts :
        \E es \in {<< >>, << <<p, q>> >>} :
            \/ DrawnAfter(es, << >>)
            \/ DrawnAfter(es, << <<a, b>> >>)
            \/ DrawnAfter(es, << <<a, b>>, <<p, q>> >>)

SpecWalls == InitWalls /\ [][Next]_vars

(***************************************************************************)
(* SpecGeomBuild: the visibility test asked for two points, and the build, *)
(* in the states reached by drawing no wall or one wall.                   *)
(***************************************************************************)
InitGeomBuild ==
    /\ \E p \in GeomPts, q \in GeomPts :
          \/ Drawn(<< >>)
          \/ Drawn(<< <<p, q>> >>)
    /\ \E a \in GeomPts, b \in GeomPts :
          probe = [NoProbe EXCEPT !.a = Centre(a[1], a[2], 0, 0), !.b = Centre(b[1], b[2], 0, 0)]

NextGeomBuild ==
    \/ AskVisible
    \/ KeyEnter /\ Untracked

SpecGeomBuild == InitGeomBuild /\ [][NextGeomBuild]_vars

(***************************************************************************)
(* SpecSight: build and search as in SpecSearch, for a small wall near the  *)
(* origin and a start and a goal that are near it or far from it.  The far *)
(* points make lengths whose rounding shows: from (0, 0) by (2, 3) to      *)
(* (12, 18) the two lengths add up to less than the length of the whole.   *)
(***************************************************************************)
SightWallPts == {2, 3} \X {2, 3}
SightEndPts == {0, 2, 12} \X {0, 3, 18}

InitSight ==
    \E s \in SightEndPts, g \in SightEndPts :
        \/ Placed(FALSE, FALSE, s, s, s, g)
        \/ \E p \in SightWallPts, q \in SightWallPts, wallFirst \in BOOLEAN :
               /\ p[1] <= q[1] /\ p[2] <= q[2]
               /\ Placed(TRUE, wallFirst, p, q, s, g)

SpecSight == InitSight /\ [][NextSearch]_vars

(***************************************************************************)
(* SpecCross: build and search as in SpecSearch, around the wall from      *)
(* (3, 4) to (6, 8): its diagonals lie on the lines from (0, 0) to (9, 12) *)
(* and from (0, 12) to (9, 0), along which every length is a whole number. *)
(***************************************************************************)
CrossWallPts == {3, 6} \X {4, 8}
CrossEndPts == {0, 3, 9} \X {0, 4, 12}

InitCross ==
    \E s \in CrossEndPts, g \in CrossEndPts :
        \/ Placed(FALSE, FALSE, s, s, s, g)
        \/ \E p \in CrossWallPts, q \in CrossWallPts, wallFirst \in BOOLEAN :
               /\ p[1] <= q[1] /\ p[2] <= q[2]
               /\ Placed(TRUE, wallFirst, p, q, s, g)

SpecCross == InitCross /\ [][NextSearch]_vars

(***************************************************************************)
(* SpecAStar: runAStar and constructPath one pass of their loops at a time, *)
(* from the states of SpecSearch, before a build or after it.  runAStar is  *)
(* called as the search button calls it, or with the start node as its goal.*)
(***************************************************************************)
\* the passes a loop is followed for; the search itself stays below it
MaxPasses == 12

\* what the page keeps while runAStar runs
Page == <<obstacles, nodes, edges, graph, mode, startNode, goalNode, isDrawing,
          startX, startY, nodeIdCounter, obstacleIdCounter, issued, probe>>

\* lines 397-420: runAStar(start, goal) is entered
CallAStar(start, goal) ==
    LET i == AStarInit(nodes, start, goal)
    IN  /\ search.pc = "idle"
        /\ search' = [pc |-> "run", start |-> start, goal |-> goal,
                      frontier |-> i.frontier, cameFrom |-> i.cameFrom,
                      cost |-> i.cost, est |-> i.est, passes |-> 0, path |-> << >>]
        /\ UNCHANGED <<Page, lastLog, canvasPath>>

\* lines 423-472: the loop is left with an empty frontier, or passed through once
LoopPass ==
    /\ search.pc = "run"
    /\ search.passes < MaxPasses
    /\ IF search.frontier = << >>
       THEN /\ search' = [search EXCEPT !.pc = "none"]
            /\ lastLog' = "No path exists"
            /\ canvasPath' = canvasPath
       ELSE \E currentNode \in {getLowestEstimatecCost(search.frontier, search.est)} :
            \E popped \in {[frontier |-> SetDelete(search.frontier, currentNode),
                             cameFrom |-> search.cameFrom,
                             cost     |-> search.cost,
                             est      |-> search.est]} :
            \E neighbours \in {Neighbours(graph, currentNode.id)} :
            \E r \in {RelaxAll(popped, currentNode, neighbours, 1, search.goal)} :
                /\ search' =
                      IF currentNode = search.goal
                      THEN [search EXCEPT !.pc = "walk", !.passes = @ + 1,
                                          !.path = <<currentNode>>]
                      ELSE IF currentNode = NullNode
                      THEN [search EXCEPT !.pc = "error", !.passes = @ + 1]
                      ELSE [search EXCEPT !.frontier = r.frontier,
                                          !.cameFrom = r.cameFrom,
                                          !.cost = r.cost, !.est = r.est,
                                          !.passes = @ + 1]
                /\ lastLog' =
                      \* lines 381, 424, 459: the last line logged in the pass
                      IF currentNode = search.goal THEN "Constructing Path"
                      ELSE IF currentNode = NullNode THEN "TypeError"
                      ELSE IF Neighbours(graph, currentNode.id) = << >>
                      THEN "in while loop"
                      ELSE IF currentNode.id = search.start.id
                      THEN "Is current node the start node? true"
                      ELSE "Is current node the start node? false"
                /\ canvasPath' = canvasPath
    /\ UNCHANGED Page

\* lines 383-391: one step back along cameFrom, or the path is drawn
WalkPass ==
    LET currentNode == search.path[1]
    IN  /\ search.pc = "walk"
        /\ Len(search.path) < MaxPasses
        /\ IF currentNode.id \in DOMAIN search.cameFrom
           THEN /\ search' = [search EXCEPT
                                 !.path = <<search.cameFrom[currentNode.id]>> \o @]
                /\ lastLog' = "Backtracking"
                /\ canvasPath' = canvasPath
           ELSE /\ search' = [search EXCEPT !.pc = "found"]
                /\ lastLog' = "Path found"
                /\ canvasPath' = search.path
        /\ UNCHANGED Page

\* the build, while no search runs
BuildIdle == search.pc = "idle" /\ KeyEnter /\ Untracked

NextAStar ==
    \/ BuildIdle
    \/ \E goal \in {goalNode, startNode} : CallAStar(startNode, goal)
    \/ LoopPass
    \/ WalkPass

SpecAStar == InitSearch /\ [][NextAStar]_vars

\* the wall drags of SpecAStarFair (press, release): a wall without width or
\* height, one without width, a square
TermWalls == { <<<<1, 1>>, <<1, 1>>>>, <<<<1, 1>>, <<1, 2>>>>, <<<<1, 1>>, <<2, 2>>>> }

\* start and goal anywhere, on a wall's corner or on one another too
InitTerm ==
    \E s \in SearchPts, g \in SearchPts :
        \/ Placed(FALSE, FALSE, s, s, s, g)
        \/ \E d \in TermWalls : Placed(TRUE, TRUE, d[1], d[2], s, g)

\* the loops are passed through as long as they have not ended (the handler runs
\* to completion)
SpecAStarFair ==
    InitTerm /\ [][NextAStar]_vars /\ WF_vars(LoopPass) /\ WF_vars(WalkPass)

\* runAStar has returned
Returned == search.pc \in {"found", "none", "error"}

\* passed through step by step, the search ends as runAStar does
LoopAgrees ==
    Returned =>
        LET r == runAStar(nodes, graph, search.start, search.goal)
        IN  /\ r.outcome = search.pc
            /\ r.outcome = "found" => r.path = search.path

(***************************************************************************)
(* SpecStale: the page's handlers, with the search button's runAStar and   *)
(* constructPath followed one pass of their loops at a time.  The search   *)
(* runs over the graph of the last build, whatever was placed, replaced or *)
(* drawn since.                                                            *)
(***************************************************************************)
\* lines 142-148: the search button enters runAStar when start and goal are
\* placed, and asks for them otherwise
SearchClick ==
    /\ search.pc = "idle"
    /\ IF CanSearch
       THEN CallAStar(startNode, goalNode)
       ELSE /\ lastLog' = "Please place both a start and goal node."
            /\ canvasPath' = canvasPath
            /\ UNCHANGED <<Page, search>>

\* a handler runs while no search does
IdleHandler ==
    /\ search.pc = "idle"
    /\ \/ \E p \in MousePts : MouseDown(p[1], p[2]) /\ Untracked
       \/ \E p \in MousePts : MouseUp(p[1], p[2]) /\ Untracked
       \/ \E key \in {"s", "g", "w"} : KeyMode(key) /\ Untracked
       \/ KeyEnter /\ Untracked
       \/ ClearButton /\ Untracked

\* lines 145, 472: runAStar has returned and the page waits for the next event
SearchReturns ==
    /\ search.pc \in {"found", "none", "error"}
    /\ search' = NoSearch
    /\ UNCHANGED <<Page, lastLog, canvasPath>>

NextStale ==
    \/ IdleHandler
    \/ SearchClick
    \/ LoopPass
    \/ WalkPass
    \/ SearchReturns

SpecStale == Init /\ [][NextStale]_vars

(***************************************************************************)
(* What the claims speak of.                                               *)
(***************************************************************************)
\* the last handler was a search, and it drew the path canvasPath
Found == lastLog = "Path found"
NoPath == lastLog = "No path exists"
NeedBoth == lastLog = "Please place both a start and goal node."

\* the adjacency index is the one a build makes of the present nodes and walls
Fresh ==
    /\ edges = BuildEdges(nodes, obstacles)
    /\ graph = BuildAdjacency(edges)

\* the adjacency list the index holds for the node u, empty when it has none
ListOf(u) == IF u.id \in DOMAIN graph THEN graph[u.id] ELSE << >>

\* v is a neighbour in the adjacency list of u
InAdjacency(u, v) ==
    \E k \in 1..Len(ListOf(u)) : ListOf(u)[k].node = v

\* the weights the adjacency list of u gives for v
WeightsTo(u, v) ==
    {ListOf(u)[k].weight : k \in {j \in 1..Len(ListOf(u)) : ListOf(u)[j].node = v}}

\* the weight of the step from u to v; zero when the list of u has no entry for v
WeightOf(u, v) ==
    IF WeightsTo(u, v) = {} THEN DZero
    ELSE CHOOSE m \in WeightsTo(u, v) : \A k \in WeightsTo(u, v) : ~DLess(m, k)

RECURSIVE WeightFrom(_, _, _)
WeightFrom(path, k, sum) ==
    IF k >= Len(path) THEN sum
    ELSE WeightFrom(path, k + 1, DAdd(sum, WeightOf(path[k], path[k + 1])))

\* the weight of a path: the weights of its steps, added in the order of the
\* path, as line 460 adds them to the cost of the start
PathWeight(path) == WeightFrom(path, 1, DZero)

\* every node the adjacency index speaks of
GraphNodes ==
    Range(nodes) \cup {startNode}
        \cup UNION {{graph[i][k].node : k \in 1..Len(graph[i])} : i \in DOMAIN graph}

RECURSIVE ReachableFrom(_)
\* the nodes reached from the set S along adjacency entries
ReachableFrom(S) ==
    LET more == S \cup {v \in GraphNodes : \E u \in S : InAdjacency(u, v)}
    IN  IF more = S THEN S ELSE ReachableFrom(more)

LeastOf(S) == CHOOSE m \in S : \A k \in S : ~DLess(k, m)

\* a table of distances is a set of pairs <<node, distance>>
DistOf(D, v) == (CHOOSE pr \in D : pr[1] = v)[2]

RECURSIVE Shortest(_, _)
\* Bellman-Ford: after r rounds the table holds, for every node v, the least
\* weight of a path from the start to v of at most r edges; Infinity when
\* there is none
Shortest(D, rounds) ==
    IF rounds = 0 THEN D
    ELSE Shortest(
           {<<v, LeastOf({DistOf(D, v)} \cup
                         UNION {{DAdd(DistOf(D, u), w) : w \in WeightsTo(u, v)} :
                                   u \in {n \in GraphNodes :
                                            DLess(DistOf(D, n), Infinity) /\ InAdjacency(n, v)}})>> :
               v \in GraphNodes},
           rounds - 1)

\* the least weight of a path from start to goal in the adjacency index
MinCost(start, goal) ==
    DistOf(Shortest({<<v, IF v = start THEN DZero ELSE Infinity>> : v \in GraphNodes},
                    Cardinality(GraphNodes)), goal)

Blocked(a, b) == \E k \in 1..Len(obstacles) : lineIntersectsRect(a, b, obstacles[k])

(***************************************************************************)
(* C1  Path validity: a path a search returns begins with the start node,  *)
(* ends with the goal node, and each of its nodes is in the adjacency list *)
(* of the node before it.                                                  *)
(***************************************************************************)
PathValid ==
    Found =>
        /\ Len(canvasPath) >= 1
        /\ canvasPath[1] = startNode
        /\ canvasPath[Len(canvasPath)] = goalNode
        /\ \A i \in 1..(Len(canvasPath) - 1) : InAdjacency(canvasPath[i], canvasPath[i + 1])

PathValidWitness == Found /\ Len(canvasPath) >= 3

(***************************************************************************)
(* C2  Collision freedom: no segment of a path a search returns is blocked *)
(* by a wall that is in the obstacle list when the search runs.  The       *)
(* search reads the adjacency index of the last build, so a wall drawn     *)
(* since then is not seen.                                                 *)
(***************************************************************************)
PathCollisionFree ==
    Found =>
        \A i \in 1..(Len(canvasPath) - 1) : ~Blocked(canvasPath[i], canvasPath[i + 1])

Searched == lastLog \in {"Path found", "No path exists", "TypeError"}

NoPathIffUnreachable ==
    Searched =>
        /\ NoPath <=> goalNode \notin ReachableFrom({startNode})
        /\ Found <=> goalNode \in ReachableFrom({startNode})

\* no path, in a graph where the start does have neighbours
NoPathWitness ==
    /\ Searched /\ Fresh /\ NoPath
    /\ Cardinality(ReachableFrom({startNode})) >= 3

(***************************************************************************)
(* C5  A search asked for while the start or the goal is missing runs no   *)
(* search: it logs the request to place both, and leaves the obstacles,    *)
(* nodes, edges, graph, start and goal as they are.                        *)
(***************************************************************************)
SearchNeedsBoth ==
    [][(BeginAStar /\ (startNode = NullNode \/ goalNode = NullNode)) =>
          /\ lastLog' = "Please place both a start and goal node."
          /\ canvasPath' = canvasPath
          /\ UNCHANGED <<obstacles, nodes, edges, graph, startNode, goalNode>>]_vars

\* the request was logged while a start was there, a goal was not, and the
\* graph had edges to search
SearchNeedsBothWitness ==
    NeedBoth /\ startNode # NullNode /\ goalNode = NullNode /\ edges # << >>

(***************************************************************************)
(* C6  Edge symmetry: the edge list holds u -> v exactly when it holds     *)
(* v -> u, and an adjacency entry (v, w) of u has a matching entry (u, w)  *)
(* of v.                                                                   *)
(***************************************************************************)
EdgeSymmetry ==
    /\ \A i \in 1..Len(edges) :
          \E j \in 1..Len(edges) : edges[j].from = edges[i].to /\ edges[j].to = edges[i].from
    /\ \A u \in GraphNodes : \A v \in GraphNodes :
          InAdjacency(u, v) => (InAdjacency(v, u) /\ WeightsTo(v, u) = WeightsTo(u, v))

EdgeSymmetryWitness ==
    /\ Len(edges) >= 4
    /\ \E i \in 1..Len(edges) : DLess(DZero, EdgeWeight(edges[i]))

(***************************************************************************)
(* C7  The nodes without a parentWall are exactly the designated start and *)
(* goal, each once: a start or goal that is replaced leaves the node list. *)
(***************************************************************************)
PointIndices == {i \in 1..Len(nodes) : nodes[i].pw = NoWall}

OneStartOneGoal ==
    /\ {nodes[i] : i \in PointIndices} = {startNode, goalNode} \ {NullNode}
    /\ Cardinality(PointIndices) = Cardinality({startNode, goalNode} \ {NullNode})

\* the start has been placed a second time, beside a goal
OneStartOneGoalWitness ==
    /\ startNode # NullNode /\ goalNode # NullNode
    /\ startNode.id > goalNode.id /\ goalNode.id > 0 /\ obstacles = << >>

(***************************************************************************)
(* C8  Ids only grow.  As claimed: a new node's id is above every id given *)
(* earlier in the session.  The clear handler restarts the counter at 0,   *)
(* so this holds between two clears only: a new node's id is above every   *)
(* id given since the last clear, and the nodes of the list have different *)
(* ids.                                                                    *)
(***************************************************************************)
IdsNeverReused ==
    [][\A n \in Created : n.id > issued.ever]_vars

IdsGrowBetweenClears ==
    [][/\ \A n \in Created : n.id > issued.sinceClear /\ n.id < nodeIdCounter'
       /\ \A i \in 1..Len(nodes') : \A j \in 1..Len(nodes') :
              nodes'[i].id = nodes'[j].id => i = j]_vars

\* a node has been created after a clear that followed two or more ids
IdsGrowWitness ==
    issued.sinceClear >= 0 /\ issued.ever > issued.sinceClear

(***************************************************************************)
(* C9  Visibility symmetry: isVisible and lineIntersectsRect answer the    *)
(* same for (a, b) and for (b, a).                                         *)
(***************************************************************************)
VisibilitySymmetric ==
    probe.done => (probe.ab = probe.ba /\ probe.hit = probe.hitBack)

\* a segment that is blocked because its second end is strictly inside a wall
VisibilitySymmetricWitness ==
    /\ probe.done /\ ~probe.ab
    /\ \E k \in 1..Len(obstacles) :
          pointInRect(probe.b, obstacles[k]) /\ ~pointInRect(probe.a, obstacles[k])

(***************************************************************************)
(* C10  Corner touch.  As claimed: a segment with an end at a corner of a  *)
(* wall is never reported as blocked by that wall.  It is, when it goes on *)
(* through the wall; what holds is the claim for a segment that has only   *)
(* that corner in common with the wall.                                    *)
(***************************************************************************)
IsCorner(p, r) == \E c \in 1..4 : RectCorners(r)[c] = p

\* the closed rectangle, the coordinates of p being n times too large
InClosedRect(p, r, n) ==
    /\ n * r.x <= p.x /\ p.x <= n * (r.x + r.width)
    /\ n * r.y <= p.y /\ p.y <= n * (r.y + r.height)

\* the wall r and the segment from c to d have the point c in common only.  The
\* segment enters and leaves the wall at multiples of 1 / n of its length, so it
\* is enough to look there.
MeetsOnlyAt(c, d, r) ==
    LET dx == d.x - c.x
        dy == d.y - c.y
        n  == (IF dx = 0 THEN 1 ELSE Abs(dx)) * (IF dy = 0 THEN 1 ELSE Abs(dy))
    IN  \/ d = c
        \/ \A k \in 1..n : ~InClosedRect(Point(n * c.x + k * dx, n * c.y + k * dy), r, n)

CornerEndNeverBlocked ==
    probe.done =>
        \A k \in 1..Len(obstacles) :
            (IsCorner(probe.a, obstacles[k]) \/ IsCorner(probe.b, obstacles[k]))
                => ~probe.hit[k]

CornerTouchNotBlocked ==
    probe.done =>
        \A k \in 1..Len(obstacles) :
            (\/ IsCorner(probe.a, obstacles[k]) /\ MeetsOnlyAt(probe.a, probe.b, obstacles[k])
             \/ IsCorner(probe.b, obstacles[k]) /\ MeetsOnlyAt(probe.b, probe.a, obstacles[k]))
                => ~probe.hit[k]

\* a segment from outside that ends at a corner of a wall with an inside, and is
\* not parallel to either side
CornerTouchWitness ==
    /\ probe.done /\ Len(obstacles) >= 1
    /\ obstacles[1].width > 0 /\ obstacles[1].height > 0
    /\ IsCorner(probe.b, obstacles[1])
    /\ MeetsOnlyAt(probe.b, probe.a, obstacles[1])
    /\ probe.a.x # probe.b.x /\ probe.a.y # probe.b.y
    /\ ~probe.hit[1]

(***************************************************************************)
(* C11  Trivial case: runAStar called with the same node as start and as   *)
(* goal selects it in its first pass through the loop and returns the path *)
(* that holds this node alone, whatever the graph holds.                   *)
(***************************************************************************)
SameNodeSearch ==
    (Returned /\ search.start = search.goal) =>
        /\ search.pc = "found"
        /\ search.passes = 1
        /\ search.path = <<search.start>>
        /\ canvasPath = <<search.start>>

\* such a call has returned, for a start that has neighbours in the graph
SameNodeSearchWitness ==
    /\ Returned /\ search.start = search.goal
    /\ Len(Neighbours(graph, search.start.id)) >= 2

(***************************************************************************)
(* C12  Direct line of sight.  As claimed: when no wall blocks the segment *)
(* from start to goal, the search after a build returns the path [start,   *)
(* goal] and nothing else, its cost the distance from start to goal.  A    *)
(* node that lies on the segment can be part of the path, the two rounded  *)
(* lengths adding up to less than the rounded length of the whole; what    *)
(* holds is that every node of the path lies on the segment, in order, and *)
(* that the path is [start, goal] when no other node lies on the segment.  *)
(***************************************************************************)
\* a search on a fresh graph, no wall blocking the segment from start to goal
SightClear == Searched /\ Fresh /\ ~Blocked(startNode, goalNode)

\* p lies on the closed segment from a to b
OnSegment(p, a, b) ==
    /\ (p.x - a.x) * (b.y - a.y) = (p.y - a.y) * (b.x - a.x)
    /\ Min(a.x, b.x) <= p.x /\ p.x <= Min(-a.x, -b.x) * (-1)
    /\ Min(a.y, b.y) <= p.y /\ p.y <= Min(-a.y, -b.y) * (-1)

\* how far along the segment from a to b the point p is
Along(p, a, b) == (p.x - a.x) * (b.x - a.x) + (p.y - a.y) * (b.y - a.y)

\* 2^-40 pixel: more than the additions along a path of this size can lose
Rounding == [e |-> -40, hi |-> 2^25, lo |-> 0]

DirectPathOnly ==
    SightClear =>
        /\ Found
        /\ canvasPath = <<startNode, goalNode>>
        /\ PathWeight(canvasPath) = heuristic(startNode, goalNode)

PathAlongSight ==
    SightClear =>
        /\ Found
        /\ canvasPath[1] = startNode
        /\ canvasPath[Len(canvasPath)] = goalNode
        /\ \A i \in 1..Len(canvasPath) : OnSegment(canvasPath[i], startNode, goalNode)
        /\ \A i \in 1..(Len(canvasPath) - 1) :
              Along(canvasPath[i], startNode, goalNode)
                  <= Along(canvasPath[i + 1], startNode, goalNode)
        /\ ~DLess(heuristic(startNode, goalNode), PathWeight(canvasPath))
        /\ DLess(heuristic(startNode, goalNode), DAdd(PathWeight(canvasPath), Rounding))
        /\ (\A n \in Range(nodes) \ {startNode, goalNode} :
                ~OnSegment(n, startNode, goalNode))
              => canvasPath = <<startNode, goalNode>>

\* the direct path, returned although the corners of a wall are there as well
PathAlongSightWitness ==
    /\ SightClear /\ Found
    /\ canvasPath = <<startNode, goalNode>>
    /\ Len(obstacles) = 1 /\ obstacles[1].width > 0 /\ obstacles[1].height > 0
    /\ DLess(DZero, heuristic(startNode, goalNode))
    /\ \E n \in Range(nodes) \ {startNode, goalNode} : OnSegment(n, startNode, goalNode)

(***************************************************************************)
(* C13  Detour around a single wall: with one wall of positive area whose  *)
(* inside the segment from start to goal passes through, start and goal    *)
(* outside the wall, the search after a build returns a path whose nodes   *)
(* between start and goal are one or two corner nodes of the wall, and     *)
(* which is longer than the distance from start to goal.  A segment that   *)
(* crosses the wall from one corner to the opposite one is not seen as     *)
(* blocked, and the search returns it.                                     *)
(***************************************************************************)
\* the segment from a to b has a point strictly inside r: it enters and
\* leaves the inside at multiples of 1 / n of its length, so some multiple of
\* 1 / 2n is inside
ThroughInside(a, b, r) ==
    LET dx == b.x - a.x
        dy == b.y - a.y
        n  == 2 * (IF dx = 0 THEN 1 ELSE Abs(dx)) * (IF dy = 0 THEN 1 ELSE Abs(dy))
    IN  \E k \in 0..n :
            /\ n * r.x < n * a.x + k * dx /\ n * a.x + k * dx < n * (r.x + r.width)
            /\ n * r.y < n * a.y + k * dy /\ n * a.y + k * dy < n * (r.y + r.height)

\* a search on a fresh graph, one wall of positive area between start and goal
WallBetween ==
    /\ Searched /\ Fresh
    /\ Len(obstacles) = 1 /\ obstacles[1].width > 0 /\ obstacles[1].height > 0
    /\ ~InClosedRect(startNode, obstacles[1], 1)
    /\ ~InClosedRect(goalNode, obstacles[1], 1)
    /\ ThroughInside(startNode, goalNode, obstacles[1])

DetourAroundWall ==
    WallBetween =>
        /\ Found
        /\ Len(canvasPath) \in {3, 4}
        /\ \A i \in 2..(Len(canvasPath) - 1) : canvasPath[i].pw # NoWall
        /\ DLess(heuristic(startNode, goalNode), PathWeight(canvasPath))

(***************************************************************************)
(* C14  A node strictly inside a wall is isolated: after a build no edge   *)
(* begins or ends at it and no adjacency list holds it or is kept for it,  *)
(* and a search from it or to it reports that no path exists.              *)
(***************************************************************************)
StrictlyInside(p, r) ==
    /\ r.x < p.x /\ p.x < r.x + r.width
    /\ r.y < p.y /\ p.y < r.y + r.height

Walled(n) == \E k \in 1..Len(obstacles) : StrictlyInside(n, obstacles[k])

InsideIsolated ==
    \A n \in Range(nodes) :
        (Walled(n) /\ Fresh) =>
            /\ \A i \in 1..Len(edges) : edges[i].from # n /\ edges[i].to # n
            /\ n.id \notin DOMAIN graph
            /\ \A u \in Range(nodes) : ~InAdjacency(u, n)
            /\ (Searched /\ n \in {startNode, goalNode}) => NoPath

\* no path to a goal inside the wall, from a start that has neighbours
InsideIsolatedWitness ==
    /\ Fresh /\ Searched /\ NoPath
    /\ Walled(goalNode) /\ ~Walled(startNode)
    /\ Len(ListOf(startNode)) >= 2

(***************************************************************************)
(* C15  Edges are unobstructed: after a build, the segment between the two *)
(* ends of an edge has no point strictly inside a wall.                    *)
(***************************************************************************)
EdgesUnobstructed ==
    Fresh =>
        \A i \in 1..Len(edges) : \A k \in 1..Len(obstacles) :
            ~ThroughInside(edges[i].from, edges[i].to, obstacles[k])

(***************************************************************************)
(* C16  Same-wall pruning: no edge joins two corner nodes of one wall      *)
(* unless they differ in exactly one coordinate; the corners at the two    *)
(* ends of a diagonal, and corners at the same point, are not joined.      *)
(***************************************************************************)
SameWallPruned ==
    \A i \in 1..Len(edges) :
        LET u == edges[i].from
            v == edges[i].to
        IN  (u.pw # NoWall /\ u.pw = v.pw) =>
               \/ u.x = v.x /\ u.y # v.y
               \/ u.y = v.y /\ u.x # v.x

\* built: the two ends of a diagonal see each other and are not joined
SameWallPrunedWitness ==
    /\ Fresh /\ Len(edges) > 0
    /\ \E u \in Range(nodes), v \in Range(nodes) :
          /\ u.pw # NoWall /\ u.pw = v.pw
          /\ u.x # v.x /\ u.y # v.y
          /\ ~Blocked(u, v)
          /\ ~InAdjacency(u, v)

(***************************************************************************)
(* C17  Contact with the boundary does not block: a segment on the line of *)
(* a side of the wall, or with a single corner of the wall as its only     *)
(* point in common with the wall, is not blocked by the wall.  As claimed, *)
(* a build with a single wall therefore joins each two adjacent corners of *)
(* the wall; it does, when the two corners are at different points: the    *)
(* corners of a wall without width or height coincide in pairs, and the    *)
(* same-wall rule does not join those.                                     *)
(***************************************************************************)
\* the segment from a to b is on the line through a side of r
AlongSide(a, b, r) ==
    \/ a.y = b.y /\ a.y \in {r.y, r.y + r.height}
    \/ a.x = b.x /\ a.x \in {r.x, r.x + r.width}

\* the segment from a to b and the wall r have one point in common, a corner of
\* r.  The segment enters and leaves the wall at multiples of 1 / n of its length.
TouchesCornerOnly(a, b, r) ==
    LET dx == b.x - a.x
        dy == b.y - a.y
        n  == (IF dx = 0 THEN 1 ELSE Abs(dx)) * (IF dy = 0 THEN 1 ELSE Abs(dy))
        At(k) == Point(n * a.x + k * dx, n * a.y + k * dy)
        in == {k \in 0..n : InClosedRect(At(k), r, n)}
    IN  IF a = b THEN IsCorner(a, r)
        ELSE /\ Cardinality(in) = 1
             /\ \A k \in in : \E c \in 1..4 :
                   /\ At(k).x = n * RectCorners(r)[c].x
                   /\ At(k).y = n * RectCorners(r)[c].y

ContactNotBlocked ==
    probe.done =>
        \A k \in 1..Len(obstacles) :
            (\/ AlongSide(probe.a, probe.b, obstacles[k])
             \/ TouchesCornerOnly(probe.a, probe.b, obstacles[k]))
                => ~probe.hit[k]

\* a build has been made of a single wall
BuiltOneWall == lastLog = "Render complete" /\ Len(obstacles) = 1

\* the two ends of side c of the wall: corners 1-2, 1-3, 2-4, 3-4
SideEnds(c) ==
    LET e == << <<1, 2>>, <<1, 3>>, <<2, 4>>, <<3, 4>> >>
    IN  <<nodes[e[c][1]], nodes[e[c][2]]>>

AdjacentCornersJoined ==
    /\ ContactNotBlocked
    /\ BuiltOneWall =>
          \A c \in 1..4 : InAdjacency(SideEnds(c)[1], SideEnds(c)[2])

ApartCornersJoined ==
    /\ ContactNotBlocked
    /\ BuiltOneWall =>
          \A c \in 1..4 :
              (SideEnds(c)[1].x # SideEnds(c)[2].x \/ SideEnds(c)[1].y # SideEnds(c)[2].y)
                 => /\ InAdjacency(SideEnds(c)[1], SideEnds(c)[2])
                    /\ InAdjacency(SideEnds(c)[2], SideEnds(c)[1])

\* asked about a segment that runs along a side of the one wall, which has an
\* inside, and built
ApartCornersJoinedWitness ==
    /\ probe.done /\ BuiltOneWall
    /\ obstacles[1].width > 0 /\ obstacles[1].height > 0
    /\ probe.a # probe.b
    /\ AlongSide(probe.a, probe.b, obstacles[1])
    /\ InClosedRect(probe.a, obstacles[1], 1) /\ InClosedRect(probe.b, obstacles[1], 1)
    /\ ~probe.hit[1]
    /\ Len(edges) = 8

\* C18: in every reachable state the nodes of the node list have pairwise
\* distinct ids.
LiveIdsDistinct ==
    \A i, j \in 1..Len(nodes) : nodes[i].id = nodes[j].id => i = j

\* a wall's corners and a mouse point that took the place of an earlier one:
\* its id is no longer its position in the list
LiveIdsDistinctWitness ==
    /\ Len(nodes) >= 5
    /\ \E i \in 1..Len(nodes) : nodes[i].id >= Len(nodes)
    /\ LiveIdsDistinct

\* the corner nodes of the node list, in the list's order
CornerSeq(ns) == SelectSeq(ns, LAMBDA n : n.pw # NoWall)

\* the k-th four corner nodes stand at the four corners of the k-th obstacle,
\* and two corner nodes have one parentWall exactly when they are of one four
CornerGroups ==
    LET cs == CornerSeq(nodes)
    IN  /\ Len(cs) = 4 * Len(obstacles)
        /\ \A k \in 1..Len(obstacles) :
              LET o == obstacles[k]
                  b == 4 * (k - 1)
              IN  /\ cs[b + 1].x = o.x           /\ cs[b + 1].y = o.y
                  /\ cs[b + 2].x = o.x + o.width /\ cs[b + 2].y = o.y
                  /\ cs[b + 3].x = o.x           /\ cs[b + 3].y = o.y + o.height
                  /\ cs[b + 4].x = o.x + o.width /\ cs[b + 4].y = o.y + o.height
        /\ \A i, j \in 1..Len(cs) :
              (cs[i].pw = cs[j].pw) <=> ((i - 1) \div 4 = (j - 1) \div 4)

\* a step that changes the obstacles or the corner nodes is a clear, which
\* empties both, or the release of a drag in wall mode, which adds one obstacle
\* and four corner nodes behind the ones there are
CornerStep ==
    (obstacles' # obstacles \/ CornerSeq(nodes') # CornerSeq(nodes)) =>
        \/ /\ obstacles' = << >>
           /\ nodes' = << >>
           /\ lastLog' = "Cleared all obstacles, nodes, and paths."
        \/ /\ mode = "wall"
           /\ isDrawing
           /\ Len(obstacles') = Len(obstacles) + 1
           /\ SubSeq(obstacles', 1, Len(obstacles)) = obstacles
           /\ Len(CornerSeq(nodes')) = Len(CornerSeq(nodes)) + 4
           /\ SubSeq(CornerSeq(nodes'), 1, Len(CornerSeq(nodes))) = CornerSeq(nodes)

\* C19: in every reachable state the corner nodes fall into fours by
\* parentWall, one four per obstacle and at its corners, two corner nodes share
\* a parentWall only within one four, and no step but a wall placement or a
\* clear adds or removes an obstacle or a corner node.
CornerLifecycle == CornerGroups /\ [][CornerGroups' /\ CornerStep]_vars

\* a wall drawn after a clear (its parentWall is not its place among the
\* obstacles), start and goal placed, the graph built and a search run
CornerLifecycleWitness ==
    /\ Len(obstacles) = 1
    /\ CornerSeq(nodes)[1].pw >= 1
    /\ startNode # NullNode
    /\ goalNode # NullNode
    /\ Fresh
    /\ Found
    /\ CornerGroups

RECURSIVE Climbs(_, _, _)
\* from the node n, at most k steps along the predecessor map cf lead to a node
\* without a predecessor
Climbs(cf, n, k) ==
    IF n.id \notin DOMAIN cf THEN TRUE
    ELSE IF k = 0 THEN FALSE
    ELSE Climbs(cf, cf[n.id], k - 1)

\* the predecessor map has no cycle and the start node has no predecessor
CameFromSound ==
    /\ \A id \in DOMAIN search.cameFrom :
          Climbs(search.cameFrom, search.cameFrom[id], Len(nodes))
    /\ search.pc # "idle" => search.start.id \notin DOMAIN search.cameFrom

\* the loops have passes left to go through whenever they have not ended
PassesLeft ==
    /\ search.pc = "run" => search.passes < MaxPasses
    /\ search.pc = "walk" => Len(search.path) < MaxPasses

\* some adjacency entry has weight zero (its two nodes coincide)
ZeroWeightEntry ==
    \E i \in DOMAIN graph : \E k \in 1..Len(graph[i]) : graph[i][k].weight = DZero

\* C20: once entered, runAStar leaves its loop, by selecting the goal or with
\* an empty frontier, and the walk back of constructPath ends; throughout, the
\* predecessor map has no cycle and the start node has no predecessor.
SearchTerminates ==
    /\ [](CameFromSound /\ PassesLeft)
    /\ (search.pc = "run") ~> (search.pc \in {"found", "none"})

\* a search over a graph with a zero-weight entry has ended with a path of
\* three nodes or more, its loop passed through at least three times
SearchTerminatesWitness ==
    /\ search.pc = "found"
    /\ ZeroWeightEntry
    /\ Len(search.path) >= 3
    /\ search.passes >= 3
    /\ search.start # search.goal

\* C21: while runAStar is in its loop, every node of the frontier has a finite
\* estimated total cost and a finite cost from the start on record, so the
\* scan of a frontier that is not empty returns one of its nodes, one of the
\* lowest estimate, and never null; the loop never dereferences null.
FrontierSelectable ==
    /\ search.pc # "error"
    /\ search.pc = "run" =>
          /\ \A n \in Range(search.frontier) :
                /\ n.id \in DOMAIN search.est /\ DLess(search.est[n.id], Infinity)
                /\ n.id \in DOMAIN search.cost /\ DLess(search.cost[n.id], Infinity)
          /\ search.frontier # << >> =>
                LET best == getLowestEstimatecCost(search.frontier, search.est)
                IN  /\ best # NullNode
                    /\ best \in Range(search.frontier)
                    /\ \A n \in Range(search.frontier) :
                          ~DLess(search.est[n.id], search.est[best.id])

\* in the loop after two passes, three nodes or more in the frontier, over a
\* graph built before the last placement
FrontierSelectableWitness ==
    /\ search.pc = "run"
    /\ search.passes >= 2
    /\ Len(search.frontier) >= 3
    /\ ~Fresh

\* the ids of the nodes of the node list
NodeIds == {nodes[i].id : i \in 1..Len(nodes)}

\* the nodes the adjacency index still names and the node list no longer holds
Gone ==
    UNION {{graph[i][k].node : k \in 1..Len(graph[i])} : i \in DOMAIN graph}
        \ Range(nodes)

\* C22: whatever was placed, replaced or drawn since the last build, a search
\* keeps to the nodes of the node list: its frontier, its cost and predecessor
\* maps and its path, and the path drawn, hold no other node; a node the stale
\* graph still names is never relaxed, never in the frontier, never in a path.
StaleNeverLeaks ==
    /\ Range(search.frontier) \subseteq Range(nodes)
    /\ Range(search.path) \subseteq Range(nodes)
    /\ Range(canvasPath) \subseteq Range(nodes)
    /\ DOMAIN search.cost \subseteq NodeIds
    /\ DOMAIN search.est \subseteq NodeIds
    /\ \A id \in DOMAIN search.cameFrom :
          id \in NodeIds /\ search.cameFrom[id] \in Range(nodes)
    /\ \A n \in Gone :
          /\ n.id \notin NodeIds
          /\ n.id \notin DOMAIN search.cost
          /\ n.id \notin DOMAIN search.cameFrom
          /\ n \notin Range(search.frontier)
          /\ n \notin Range(search.path)

\* a search has ended after expanding the start node, whose stale adjacency
\* list names a node that was replaced since the build
StaleNeverLeaksWitness ==
    /\ search.pc = "none"
    /\ search.passes >= 1
    /\ \E k \in 1..Len(ListOf(search.start)) : ListOf(search.start)[k].node \in Gone

=============================================================================
